---------------------------- MODULE Spec2Model ----------------------------
(***************************************************************************)
(* Percent-encoding engine of src/src/enc.rs: the safe-byte predicate, the *)
(* scan/copy/escape loop encode_into, and the adapters built on it         *)
(* (encode, encode_exclude, encode_binary, Encoded::to_string / write /    *)
(* append_to and Display::fmt).                                            *)
(*                                                                         *)
(* A byte is a number in 0..255, a byte string a sequence of bytes, a char *)
(* a Unicode code point.  A call is one action; the caller's input is      *)
(* drawn in Init, the other arguments of a call by the action.             *)
(***************************************************************************)
EXTENDS Integers, Sequences, FiniteSets, TLC

(* ------------------------------- bounds -------------------------------- *)

\* longest sampled input, in chars (text) or bytes (binary)
MaxLen == 3
\* the sink's failing write is the k-th, k in 1..MaxFail (0: it never fails)
MaxFail == 3

Byte == 0..255

\* sampled chars of text inputs: A ~ % / e-acute (U+00E9) copyright (U+00A9)
Chars == {65, 126, 37, 47, 233, 169}
\* sampled bytes of binary inputs: NUL % A - 0xA9 0xFF
BinBytes == {0, 37, 65, 45, 169, 255}
\* sampled chars of exclusion lists: / e-acute copyright A-tilde (U+00C3)
ExChars == {47, 233, 169, 195}
\* sampled initial contents of the caller's String in append_to: "", "A", "%4"
Bufs == {<<>>, <<65>>, <<37, 52>>}

SeqsUpTo(S, n) == UNION {[1..k -> S] : k \in 0..n}

(* --------------------------- helper functions -------------------------- *)

RECURSIVE Flatten(_)
\* the bytes a destination holds after receiving the chunks in order
\* (String::push_str / write_all append)
Flatten(chunks) ==
  IF chunks = <<>> THEN <<>> ELSE Head(chunks) \o Flatten(Tail(chunks))

\* str::as_bytes of one char: its UTF-8 encoding
Utf8Char(c) ==
  IF c < 128 THEN <<c>>
  ELSE IF c < 2048 THEN <<192 + (c \div 64), 128 + (c % 64)>>
  ELSE <<224 + (c \div 4096), 128 + ((c \div 64) % 64), 128 + (c % 64)>>

RECURSIVE Utf8(_)
\* data.as_bytes() of a text given as its chars
Utf8(cs) == IF cs = <<>> THEN <<>> ELSE Utf8Char(Head(cs)) \o Utf8(Tail(cs))

Cont(b) == b \in 128..191

RECURSIVE IsUtf8(_)
\* the precondition of str::from_utf8_unchecked: the bytes are well-formed
\* UTF-8 (forms of one to three bytes; a four-byte lead is outside the
\* sampled alphabets and counts as ill-formed here)
IsUtf8(s) ==
  IF s = <<>> THEN TRUE
  ELSE LET b == Head(s) IN
    IF b < 128 THEN IsUtf8(Tail(s))
    ELSE IF b \in 194..223
      THEN Len(s) >= 2 /\ Cont(s[2]) /\ IsUtf8(SubSeq(s, 3, Len(s)))
    ELSE IF b \in 224..239
      THEN /\ Len(s) >= 3
           /\ Cont(s[2]) /\ Cont(s[3])
           /\ (b = 224 => s[2] >= 160)
           /\ (b = 237 => s[2] <= 159)
           /\ IsUtf8(SubSeq(s, 4, Len(s)))
    ELSE FALSE

(* --------------------------- safe-byte predicate ------------------------ *)

ascii_checker_pct(c) ==
  \/ c \in 48..57 \/ c \in 65..90 \/ c \in 97..122
  \/ c \in {45, 46, 95, 126, 37}

\* enc.rs:4-6  matches!(c, b'0'..=b'9' | b'A'..=b'Z' | b'a'..=b'z' | b'-' | b'.' | b'_' | b'~')
ascii_checker(c) ==
  \/ c \in 48..57 \/ c \in 65..90 \/ c \in 97..122
  \/ c \in {45, 46, 95, 126}

\* the closure values handed to encode_into: a predicate on one byte
DefaultChecker == [c \in Byte |-> ascii_checker(c)]

\* enc.rs:86-88  |c| ascii_checker(c) || exclude.contains(&(**c as char))
\* `**c as char` is the char whose code point is the byte's value
ExcludeChecker(exclude) == [c \in Byte |-> ascii_checker(c) \/ c \in exclude]

(* ------------------------------ hex digits ------------------------------ *)

to_hex_digit_lower(digit) ==
  IF digit <= 9 THEN (48 + digit) % 256 ELSE (97 - 10 + digit) % 256

to_hex_digit_nosub(digit) ==
  IF digit <= 9 THEN (48 + digit) % 256 ELSE (65 + digit) % 256

\* enc.rs:165-170  (u8 arithmetic)
to_hex_digit(digit) ==
  IF digit <= 9 THEN (48 + digit) % 256 ELSE (65 - 10 + digit) % 256

\* enc.rs:154  &[b'%', to_hex_digit(byte >> 4), to_hex_digit(byte & 15)]
Escape(byte) == <<37, to_hex_digit(byte \div 16), to_hex_digit(byte % 16)>>

(* ------------------------------ the core loop --------------------------- *)

RECURSIVE TakeWhileCount(_, _)
\* enc.rs:134  data.iter().take_while(|c| safety_checker(c)).count()
TakeWhileCount(data, safety_checker) ==
  IF data = <<>> \/ ~safety_checker[Head(data)] THEN 0
  ELSE 1 + TakeWhileCount(Tail(data), safety_checker)

\* The destination behind the push_str closure: the chunks it holds, the
\* number of push_str calls made so far, the call that fails (0: none), and
\* whether a call has failed.
NewDest(failAt) == [chunks |-> <<>>, calls |-> <<>>, failAt |-> failAt, err |-> FALSE]

\* One call of the push_str closure (enc.rs:44 writer.write_all, enc.rs:68
\* f.write_str, enc.rs:119 escaped.push_str): the failing call delivers
\* nothing and returns Err, every other call appends the chunk.
push_str(d, s) ==
  LET n == Len(d.calls) + 1 IN
  [d EXCEPT !.calls  = Append(d.calls, s),
            !.chunks = IF n = d.failAt THEN d.chunks ELSE Append(d.chunks, s),
            !.err    = (n = d.failAt)]

QuestionMarkIgnored(d) == FALSE

\* the `?` after a push_str call (enc.rs:146, 155): Err leaves the routine
QuestionMark(d) == d.err

SkipWriteNever(ascii_len, data, pushed, may_skip_write) == FALSE

\* enc.rs:136-139  the zero-copy return
SkipWrite(ascii_len, data, pushed, may_skip_write) ==
  ascii_len >= Len(data) /\ ~pushed /\ may_skip_write

PushSafeAlways(d, safe) == push_str(d, safe)

\* enc.rs:145-147  if !safe.is_empty() { push_str(safe)?; }
PushSafe(d, safe) == IF safe # <<>> THEN push_str(d, safe) ELSE d

RECURSIVE encode_into_loop(_, _, _, _, _, _)
\* enc.rs:132-161, one iteration per unfolding.  ub records that
\* str::from_utf8_unchecked was handed bytes that are not UTF-8.
encode_into_loop(data, pushed, may_skip_write, safety_checker, d, ub) ==
  LET ascii_len == TakeWhileCount(data, safety_checker) IN
  IF SkipWrite(ascii_len, data, pushed, may_skip_write)
  THEN [ret |-> "OkTrue", dest |-> d, ub |-> ub]
  ELSE
    LET atEnd == ascii_len >= Len(data)
        safe  == IF atEnd THEN data ELSE SubSeq(data, 1, ascii_len)
        rest  == IF atEnd THEN <<>> ELSE SubSeq(data, ascii_len + 1, Len(data))
        d1    == PushSafe(d, safe)
        ub1   == ub \/ (safe # <<>> /\ ~IsUtf8(safe))
    IN
    IF QuestionMark(d1) THEN [ret |-> "Err", dest |-> d1, ub |-> ub1]
    ELSE IF rest = <<>> THEN [ret |-> "OkFalse", dest |-> d1, ub |-> ub1]
    ELSE
      LET d2 == push_str(d1, Escape(Head(rest))) IN
      IF QuestionMark(d2) THEN [ret |-> "Err", dest |-> d2, ub |-> ub1]
      ELSE encode_into_loop(Tail(rest), TRUE, may_skip_write, safety_checker, d2, ub1)

\* enc.rs:125-162  (pushed starts false)
encode_into(data, may_skip_write, safety_checker, d) ==
  encode_into_loop(data, FALSE, may_skip_write, safety_checker, d, FALSE)

(* -------------------------------- adapters ------------------------------ *)

\* enc.rs:112-123  encode_into with |s| escaped.push_str(s), which cannot
\* fail; the result is unwrapped.
append_string(data, escaped, may_skip, safety_checker) ==
  LET r == encode_into(data, may_skip, safety_checker, NewDest(0)) IN
  [unmodified |-> (r.ret = "OkTrue"),
   escaped    |-> escaped \o Flatten(r.dest.chunks),
   calls      |-> r.dest.calls,
   ub         |-> r.ub]

\* enc.rs:101  data.len() | 15
ReserveRequest(len) == len - (len % 16) + 15

encode_binary_internal_lazy(data, safety_checker) ==
  LET r == append_string(data, <<>>, TRUE, safety_checker) IN
  [kind    |-> IF r.unmodified THEN "Borrowed" ELSE "Owned",
   bytes   |-> IF r.unmodified THEN data ELSE r.escaped,
   escaped |-> r.escaped,
   reserve |-> IF r.unmodified THEN 0 ELSE ReserveRequest(Len(data)),
   calls   |-> r.calls,
   ub      |-> r.ub]

\* enc.rs:98-110  escaped is the local String, reserve the capacity asked of
\* try_reserve before the scan (0: no request made); a Borrowed result is
\* str::from_utf8_unchecked(data), an Owned one is escaped.
encode_binary_internal(data, safety_checker) ==
  LET r == append_string(data, <<>>, TRUE, safety_checker) IN
  [kind    |-> IF r.unmodified THEN "Borrowed" ELSE "Owned",
   bytes   |-> IF r.unmodified THEN data ELSE r.escaped,
   escaped |-> r.escaped,
   reserve |-> ReserveRequest(Len(data)),
   calls   |-> r.calls,
   ub      |-> r.ub \/ (r.unmodified /\ ~IsUtf8(data))]

(* --------------------------------- state -------------------------------- *)

VARIABLES
  data,       \* the caller's input, as bytes
  chars,      \* the same input as chars when it is a &str, <<>> otherwise
  isStr,      \* whether the input is a &str (valid UTF-8) or a &[u8]
  op,         \* the operation that ran last, "idle" before a call
  args,       \* its other arguments: exclude list, failing write, String before,
              \* and the earlier result fed back in as the input
  ret,        \* what it returned: [kind, bytes]
  calls,      \* the chunks push_str was called with, in order
  sink,       \* the chunks the writer / formatter accepted, in order
  string,     \* the caller's String after append_to
  reserve,    \* capacity asked of try_reserve during the call (0: none asked)
  allocated,  \* whether that request allocated a buffer
  ub          \* from_utf8_unchecked was handed ill-formed bytes

vars == <<data, chars, isStr, op, args, ret, calls, sink, string, reserve, allocated, ub>>

NoArgs == [exclude |-> {}, failAt |-> 0, string |-> <<>>, prev |-> <<>>]
NoRet  == [kind |-> "None", bytes |-> <<>>]

StrInputs == SeqsUpTo(Chars, MaxLen)
\* every single byte, and the sampled byte strings
BinInputs == {<<b>> : b \in Byte} \cup SeqsUpTo(BinBytes, MaxLen)

Init ==
  /\ \/ /\ chars \in StrInputs
        /\ data = Utf8(chars)
        /\ isStr = TRUE
     \/ /\ data \in BinInputs
        /\ chars = <<>>
        /\ isStr = FALSE
  /\ op = "idle"
  /\ args = NoArgs
  /\ ret = NoRet
  /\ calls = <<>>
  /\ sink = <<>>
  /\ string = <<>>
  /\ reserve = 0
  /\ allocated = FALSE
  /\ ub = FALSE

\* The outcomes of a call that returns a Cow: the one computed, and, when the
\* call ran into undefined behaviour, also an arbitrary one.  try_reserve may
\* fail to allocate; its result is dropped (enc.rs:101 `let _ =`).
CowCall(name, a, r) ==
  /\ op = "idle"
  /\ op' = name
  /\ args' = a
  /\ ret' \in {[kind |-> r.kind, bytes |-> r.bytes]}
               \cup (IF r.ub THEN {[kind |-> "Undefined", bytes |-> <<>>]} ELSE {})
  /\ calls' = r.calls
  /\ reserve' = r.reserve
  /\ allocated' \in (IF r.reserve > 0 THEN BOOLEAN ELSE {FALSE})
  /\ ub' = r.ub
  /\ UNCHANGED <<data, chars, isStr, sink, string>>

\* enc.rs:78-80
encode ==
  /\ isStr
  /\ CowCall("encode", NoArgs, encode_binary_internal(data, DefaultChecker))

\* enc.rs:78-80, called on the text an encode call returned
encode_twice ==
  LET r == encode_binary_internal(ret.bytes, DefaultChecker) IN
  /\ op = "encode"
  /\ ret.kind \in {"Borrowed", "Owned"}
  /\ op' = "encode_twice"
  /\ args' = [NoArgs EXCEPT !.prev = ret.bytes]
  /\ ret' = [kind |-> r.kind, bytes |-> r.bytes]
  /\ calls' = r.calls
  /\ reserve' = r.reserve
  /\ allocated' \in BOOLEAN
  /\ ub' = r.ub
  /\ UNCHANGED <<data, chars, isStr, sink, string>>

\* enc.rs:85-89
encode_exclude ==
  /\ isStr
  /\ \E exclude \in SUBSET ExChars :
       CowCall("encode_exclude", [NoArgs EXCEPT !.exclude = exclude],
               encode_binary_internal(data, ExcludeChecker(exclude)))

\* enc.rs:94-96
encode_binary ==
  CowCall("encode_binary", NoArgs, encode_binary_internal(data, DefaultChecker))

\* enc.rs:29-31, 36-38  to_str().into_owned(): the String holds the Cow's bytes
to_string ==
  LET r == encode_binary_internal(data, DefaultChecker) IN
  CowCall("to_string", NoArgs, [r EXCEPT !.kind = "String"])

\* A call through a fallible destination, whose failAt-th write fails.
SinkCall(name, failAt) ==
  LET r == encode_into(data, FALSE, DefaultChecker, NewDest(failAt)) IN
  /\ op = "idle"
  /\ op' = name
  /\ args' = [NoArgs EXCEPT !.failAt = failAt]
  /\ ret' = [kind |-> IF r.ret = "Err" THEN "Err" ELSE "Ok", bytes |-> <<>>]
  /\ calls' = r.dest.calls
  /\ sink' = r.dest.chunks
  /\ ub' = r.ub
  /\ UNCHANGED <<data, chars, isStr, string, reserve, allocated>>

\* enc.rs:42-47  Encoded::write
write == \E failAt \in 0..MaxFail : SinkCall("write", failAt)

\* enc.rs:67-70  Display::fmt
fmt == \E failAt \in 0..MaxFail : SinkCall("fmt", failAt)

append_to_skipping ==
  \E b \in Bufs :
    LET r == append_string(data, b, TRUE, DefaultChecker) IN
    /\ op = "idle"
    /\ op' = "append_to"
    /\ args' = [NoArgs EXCEPT !.string = b]
    /\ ret' = [kind |-> "Unit", bytes |-> <<>>]
    /\ calls' = r.calls
    /\ string' = r.escaped
    /\ ub' = r.ub
    /\ UNCHANGED <<data, chars, isStr, sink, reserve, allocated>>

\* enc.rs:51-53  Encoded::append_to
append_to ==
  \E b \in Bufs :
    LET r == append_string(data, b, FALSE, DefaultChecker) IN
    /\ op = "idle"
    /\ op' = "append_to"
    /\ args' = [NoArgs EXCEPT !.string = b]
    /\ ret' = [kind |-> "Unit", bytes |-> <<>>]
    /\ calls' = r.calls
    /\ string' = r.escaped
    /\ ub' = r.ub
    /\ UNCHANGED <<data, chars, isStr, sink, reserve, allocated>>

\* The caller drops the result; the next call starts from nothing, the
\* library keeping no state between calls.
release ==
  /\ op # "idle"
  /\ op' = "idle"
  /\ args' = NoArgs
  /\ ret' = NoRet
  /\ calls' = <<>>
  /\ sink' = <<>>
  /\ string' = <<>>
  /\ reserve' = 0
  /\ allocated' = FALSE
  /\ ub' = FALSE
  /\ UNCHANGED <<data, chars, isStr>>

Next ==
  \/ encode
  \/ encode_twice
  \/ encode_exclude
  \/ encode_binary
  \/ to_string
  \/ write
  \/ fmt
  \/ append_to
  \/ release

Spec == Init /\ [][Next]_vars

TypeOK ==
  /\ data \in Seq(Byte)
  /\ op \in {"idle", "encode", "encode_twice", "encode_exclude", "encode_binary", "to_string",
             "write", "fmt", "append_to"}
  /\ isStr => IsUtf8(data)

(* ------------------- reference definitions of the claims ----------------- *)

\* the default safe set: ASCII letters, digits, and - . _ ~
DefaultSafe == (48..57) \cup (65..90) \cup (97..122) \cup {45, 46, 95, 126}

\* "0123456789ABCDEF"
HexDigits == <<48, 49, 50, 51, 52, 53, 54, 55, 56, 57, 65, 66, 67, 68, 69, 70>>
UpperHex == {HexDigits[i] : i \in 1..16}
HexVal(h) == (CHOOSE i \in 1..16 : HexDigits[i] = h) - 1

\* percent-encoding of one byte: % and the two uppercase hex digits of its value
RefEscape(b) == <<37, HexDigits[(b \div 16) + 1], HexDigits[(b % 16) + 1]>>

RECURSIVE RefEncode(_, _)
\* the full encoding of a byte string: each byte itself when safe, %XX otherwise
RefEncode(s, safe) ==
  IF s = <<>> THEN <<>>
  ELSE (IF Head(s) \in safe THEN <<Head(s)>> ELSE RefEscape(Head(s)))
         \o RefEncode(Tail(s), safe)

RECURSIVE RefDecode(_)
\* the reference percent-decoder: %XX becomes the byte XX, all else passes
RefDecode(s) ==
  IF s = <<>> THEN <<>>
  ELSE IF Head(s) = 37 /\ Len(s) >= 3 /\ s[2] \in UpperHex /\ s[3] \in UpperHex
    THEN <<16 * HexVal(s[2]) + HexVal(s[3])>> \o RefDecode(SubSeq(s, 4, Len(s)))
  ELSE <<Head(s)>> \o RefDecode(Tail(s))

AllSafe(s) == \A i \in 1..Len(s) : s[i] \in DefaultSafe

\* length of the longest all-safe prefix
SafePrefix(s) ==
  CHOOSE n \in 0..Len(s) :
    /\ \A i \in 1..n : s[i] \in DefaultSafe
    /\ (n < Len(s) => s[n + 1] \notin DefaultSafe)

RECURSIVE RefChunks(_)
\* the chunk sequence of the full encoding: each maximal non-empty safe run,
\* and one %XX chunk per unsafe byte, in input order
RefChunks(s) ==
  IF s = <<>> THEN <<>>
  ELSE IF Head(s) \notin DefaultSafe
    THEN <<RefEscape(Head(s))>> \o RefChunks(Tail(s))
  ELSE LET n == SafePrefix(s) IN
    <<SubSeq(s, 1, n)>> \o RefChunks(SubSeq(s, n + 1, Len(s)))

\* every character is safe or %, and every % is followed by two upper hex digits
WellFormed(out) ==
  \A i \in 1..Len(out) :
    /\ out[i] \in DefaultSafe \cup {37}
    /\ out[i] = 37 =>
         /\ i + 2 <= Len(out)
         /\ out[i + 1] \in UpperHex
         /\ out[i + 2] \in UpperHex

RECURSIVE ClaimedExclude(_, _)
\* what the exclusion claim promises for a text: a char that is default-safe
\* or in the exclusion list stays as it is, every other byte is escaped
ClaimedExclude(cs, exclude) ==
  IF cs = <<>> THEN <<>>
  ELSE (IF Head(cs) \in exclude \/ Head(cs) \in DefaultSafe
          THEN Utf8Char(Head(cs))
          ELSE RefEncode(Utf8Char(Head(cs)), DefaultSafe))
         \o ClaimedExclude(Tail(cs), exclude)

IsEscapeChunk(c) == Len(c) = 3 /\ c[1] = 37 /\ c[2] \in UpperHex /\ c[3] \in UpperHex
IsSafeChunk(c) == c # <<>> /\ AllSafe(c)

\* what the operation that ran produced with the default safe set
Output ==
  CASE op \in {"encode", "encode_binary", "to_string"} -> ret.bytes
    [] op \in {"write", "fmt"} -> Flatten(sink)
    [] op = "append_to" -> SubSeq(string, Len(args.string) + 1, Len(string))
    [] OTHER -> <<>>

(* --------------------------------- claims -------------------------------- *)

\* C1: round-trip law: the reference percent-decoder applied to the result
\* of encode / encode_binary / to_string gives back the input, byte for byte.
C1_RoundTrip ==
  op \in {"encode", "encode_binary", "to_string"} => RefDecode(ret.bytes) = data

\* C1 witness: the binary input FF 00 'A' was encoded to "%FF%00A"
C1_Witness ==
  /\ op = "encode_binary"
  /\ data = <<255, 0, 65>>
  /\ ret.bytes = <<37, 70, 70, 37, 48, 48, 65>>

\* C2: encode / encode_binary return the borrowed variant exactly when every
\* input byte is default-safe, then equal to the input; otherwise owned.
C2_BorrowedIffAllSafe ==
  op \in {"encode", "encode_binary"} =>
    /\ (ret.kind = "Borrowed") <=> AllSafe(data)
    /\ ret.kind = "Borrowed" => ret.bytes = data
    /\ ~AllSafe(data) => ret.kind = "Owned"

\* C2 witness: a non-empty all-safe text came back borrowed
C2_Witness ==
  /\ op = "encode"
  /\ data = <<65, 126, 65>>
  /\ ret = [kind |-> "Borrowed", bytes |-> <<65, 126, 65>>]

\* C3: with the default safe set every output character is in [0-9A-Za-z] or
\* one of - . _ ~ %, and every % is followed by two hex digits 0-9 A-F.
C3_OutputAlphabet ==
  op \in {"encode", "encode_binary", "to_string", "write", "fmt", "append_to"} =>
    WellFormed(Output)

\* C3 witness: a byte with a letter nibble and a digit nibble (0xA9) was
\* written to a sink as "%A9"
C3_Witness ==
  /\ op = "write"
  /\ ret.kind = "Ok"
  /\ data = <<169>>
  /\ Flatten(sink) = <<37, 65, 57>>

\* C4 (as claimed): the output is always ASCII: no byte >= 0x80 reaches an
\* emitted chunk or the borrowed result, whatever predicate the public
\* interface builds, encode_exclude with any list included.
C4_AlwaysAscii ==
  ret.kind \in {"Borrowed", "Owned", "String"} =>
    /\ \A i \in 1..Len(ret.bytes) : ret.bytes[i] < 128
    /\ \A k \in 1..Len(calls) : \A i \in 1..Len(calls[k]) : calls[k][i] < 128

\* C5 (as claimed): every char of the exclusion list stays unescaped wherever
\* it occurs in the input, and every byte that is neither default-safe nor
\* part of an excluded char is escaped as %XX.
C5_ExcludedUnescaped ==
  (op = "encode_exclude" /\ ret.kind # "Undefined") =>
    ret.bytes = ClaimedExclude(chars, args.exclude)

\* C6 (as claimed): on the zero-copy path encode / encode_binary return the
\* borrowed view without a destination buffer having been reserved or
\* allocated during the call.
C6_NoReservation ==
  (op \in {"encode", "encode_binary"} /\ ret.kind = "Borrowed") =>
    (reserve = 0 /\ ~allocated)

\* C6 (amended): on the zero-copy path encode / encode_binary return the
\* borrowed view with no chunk written to the destination buffer; the buffer
\* itself was asked for before the scan (at least 15 bytes and at least the
\* input's length) and is dropped empty.
C6_BorrowedWritesNothing ==
  (op \in {"encode", "encode_binary"} /\ ret.kind = "Borrowed") =>
    /\ calls = <<>>
    /\ reserve >= 15
    /\ reserve >= Len(data)

\* C6 witness: an all-safe text came back borrowed after a buffer was allocated
C6_Witness ==
  /\ op = "encode"
  /\ data # <<>>
  /\ ret.kind = "Borrowed"
  /\ allocated

\* C7: when the k-th emit fails, write / fmt return the failure, make exactly
\* k emit calls, and the k-1 chunks delivered are the first k-1 chunks of the
\* full encoding, in order.
C7_FailureStops ==
  (op \in {"write", "fmt"} /\ args.failAt \in 1..Len(RefChunks(data))) =>
    /\ ret.kind = "Err"
    /\ Len(calls) = args.failAt
    /\ calls = SubSeq(RefChunks(data), 1, args.failAt)
    /\ sink = SubSeq(RefChunks(data), 1, args.failAt - 1)

\* C7 witness: the second of three writes failed after the first was delivered
C7_Witness ==
  /\ op = "write"
  /\ args.failAt = 2
  /\ Len(RefChunks(data)) = 3
  /\ ret.kind = "Err"
  /\ Len(sink) = 1

\* C8: after append_to the String is its earlier content followed by the full
\* encoding of the input; an all-safe input is appended verbatim.
C8_AppendFrame ==
  op = "append_to" =>
    /\ string = args.string \o RefEncode(data, DefaultSafe)
    /\ AllSafe(data) => string = args.string \o data

\* C8 witness: an all-safe input was appended to a non-empty String
C8_Witness ==
  /\ op = "append_to"
  /\ args.string = <<37, 52>>
  /\ data = <<65, 45>>
  /\ string = <<37, 52, 65, 45>>

\* C9: encode(encode(x)) differs from encode(x) whenever x has a byte outside
\* the default safe set, and encode(encode(x)) = encode(x) = x otherwise.
C9_NotIdempotent ==
  op = "encode_twice" =>
    /\ ~AllSafe(data) => ret.bytes # args.prev
    /\ AllSafe(data) => (ret.bytes = args.prev /\ args.prev = data)

\* C9 witness: "%" became "%25" and then "%2525"
C9_Witness ==
  /\ op = "encode_twice"
  /\ data = <<37>>
  /\ args.prev = <<37, 50, 53>>
  /\ ret.bytes = <<37, 50, 53, 50, 53>>

\* C10: without skipping, the emit operation receives, in input order, each
\* maximal non-empty safe run once and one %XX chunk per unsafe byte, never an
\* empty chunk; the call ends normally; an all-safe non-empty input gives one
\* chunk equal to the input and the empty input gives none.
C10_ChunkSequence ==
  (op \in {"write", "fmt", "append_to"} /\ ret.kind # "Err") =>
    /\ calls = RefChunks(data)
    /\ \A k \in 1..Len(calls) : IsSafeChunk(calls[k]) \/ IsEscapeChunk(calls[k])
    /\ \A k \in 1..(Len(calls) - 1) : ~(IsSafeChunk(calls[k]) /\ IsSafeChunk(calls[k + 1]))
    /\ Flatten(calls) = RefEncode(data, DefaultSafe)
    /\ Cardinality({k \in 1..Len(calls) : IsEscapeChunk(calls[k])})
         = Cardinality({i \in 1..Len(data) : data[i] \notin DefaultSafe})
    /\ (data # <<>> /\ AllSafe(data)) => calls = <<data>>
    /\ data = <<>> => calls = <<>>

\* C10 witness: 'A' FF 'A' reached the formatter as "A", "%FF", "A"
C10_Witness ==
  /\ op = "fmt"
  /\ ret.kind = "Ok"
  /\ data = <<65, 255, 65>>
  /\ calls = <<<<65>>, <<37, 70, 70>>, <<65>>>>

=============================================================================
